---- MODULE Spec2Model ----
(***************************************************************************)
(* Model of pkg/k8sutil/k8sutil.go of the kong operator: the operations    *)
(* that ensure and tear down the managed objects of a kong cluster (the    *)
(* services kong-proxy and kong-admin, the deployment kong, the replica    *)
(* sets the deployment controller derives from it) against the Kubernetes *)
(* object store reached through KubeInterface.                             *)
(*                                                                         *)
(* One step of a worker is one remote call together with the local code    *)
(* that follows it up to the next remote call or to the return.            *)
(***************************************************************************)
EXTENDS Integers, Sequences, FiniteSets, TLC

\* ------------------------------------------------------------------ bounds
MaxReplicas == 2
MaxJobs == 2
MaxFaults == 1
MaxEdits == 1
MaxRS == 1
MaxEvents == 3
MaxListed == 3
MaxAttempts == 3

Procs == {1, 2}
Namespaces == {"ns1"}
Images == {"kong:a", "kong:b"}
ReplicaCounts == 0 .. MaxReplicas

\* --------------------------------------------------------------- constants
kongProxyServiceName == "kong-proxy"
kongAdminServiceName == "kong-admin"
kongDeploymentName == "kong"

Nil == "nil"
ErrNotFound == "NotFound"
ErrAlreadyExists == "AlreadyExists"
ErrConflict == "Conflict"
ErrTimeout == "Timeout"
ErrUnavailable == "Unavailable"
tprName == "kong-cluster.enterprises.upmc.com"

\* ------------------------------------------------------------------ values
\* A *int32: the address of the allocation and the value stored there.  Go
\* compares two pointers by address.
NilPtr == [addr |-> "nil", val |-> 0]
ArgPtr(v) == [addr |-> "arg", val |-> v]
DecodedPtr(v) == [addr |-> "decoded", val |-> v]
NewInt32 == [addr |-> "new", val |-> 0]

PtrNeq(a, b) == a.addr # b.addr

\* The zero value a typed Get hands back when the request fails.
EmptyObject == [name |-> "", replicas |-> NilPtr, image |-> "",
                type |-> "", ports |-> <<>>, ranges |-> <<>>, rv |-> 0]

\* Mutant: the ssl port targets the plain port of the container.
ProxyServiceSslToPlain ==
  [name |-> kongProxyServiceName, replicas |-> NilPtr, image |-> "",
   type |-> "LoadBalancer",
   ports |-> << <<80, 8000, "TCP">>, <<443, 8000, "TCP">> >>,
   ranges |-> << "0.0.0.0/0" >>, rv |-> 0]

\* v1.Service literal of CreateKongProxyService.
ProxyService ==
  [name |-> kongProxyServiceName, replicas |-> NilPtr, image |-> "",
   type |-> "LoadBalancer",
   ports |-> << <<80, 8000, "TCP">>, <<443, 8443, "TCP">> >>,
   ranges |-> << "0.0.0.0/0" >>, rv |-> 0]

\* v1.Service literal of CreateKongAdminService.
AdminService ==
  [name |-> kongAdminServiceName, replicas |-> NilPtr, image |-> "",
   type |-> "ClusterIP",
   ports |-> << <<8444, 8444, "TCP">> >>,
   ranges |-> <<>>, rv |-> 0]

\* Mutant: the literal is built with a fixed count of one replica.
NewDeploymentOneReplica(baseImage, replicas) ==
  [name |-> kongDeploymentName, replicas |-> [replicas EXCEPT !.val = 1],
   image |-> baseImage,
   type |-> "", ports |-> <<>>, ranges |-> <<>>, rv |-> 0]

\* v1beta1.Deployment literal of CreateKongDeployment: Replicas is the
\* caller's pointer, Image the base image; the rest of the template is fixed.
NewDeployment(baseImage, replicas) ==
  [name |-> kongDeploymentName, replicas |-> replicas, image |-> baseImage,
   type |-> "", ports |-> <<>>, ranges |-> <<>>, rv |-> 0]

\* --------------------------------------------------------- the object store
\* A collection is a set of stored objects.  The store keeps the replica
\* count as a number; the client decodes it into a fresh allocation.
Encode(o) ==
  IF "replicas" \in DOMAIN o THEN [o EXCEPT !.replicas = o.replicas.val] ELSE o
Decode(s) ==
  IF "replicas" \in DOMAIN s
  THEN [s EXCEPT !.replicas =
          IF s.name = kongDeploymentName THEN DecodedPtr(s.replicas) ELSE NilPtr]
  ELSE s

Named(coll, name) == {s \in coll : s.name = name}

\* One outcome of a remote call is [coll, obj, err]: the collection after
\* the call, the object handed back and the error.  A request may time out
\* while the budget of injected faults lasts; it then changes nothing.
FaultOutcomes(coll, budget) ==
  IF budget > 0 THEN {[coll |-> coll, obj |-> EmptyObject, err |-> ErrTimeout]}
  ELSE {}

GetOutcomes(coll, name, budget) ==
  (IF Named(coll, name) = {}
   THEN {[coll |-> coll, obj |-> EmptyObject, err |-> ErrNotFound]}
   ELSE {[coll |-> coll, obj |-> Decode(s), err |-> Nil] : s \in Named(coll, name)})
  \cup FaultOutcomes(coll, budget)

CreateOutcomes(coll, o, ver, budget) ==
  (IF Named(coll, o.name) # {}
   THEN {[coll |-> coll, obj |-> EmptyObject, err |-> ErrAlreadyExists]}
   ELSE {[coll |-> coll \cup {[Encode(o) EXCEPT !.rv = ver + 1]},
          obj |-> o, err |-> Nil]})
  \cup FaultOutcomes(coll, budget)

\* Update is conditioned on the resource version read at fetch time.
UpdateOutcomes(coll, o, ver, budget) ==
  (IF Named(coll, o.name) = {}
   THEN {[coll |-> coll, obj |-> EmptyObject, err |-> ErrNotFound]}
   ELSE IF \A s \in Named(coll, o.name) : s.rv # o.rv
   THEN {[coll |-> coll, obj |-> EmptyObject, err |-> ErrConflict]}
   ELSE {[coll |-> (coll \ Named(coll, o.name))
                     \cup {[Encode(o) EXCEPT !.rv = ver + 1]},
          obj |-> o, err |-> Nil]})
  \cup FaultOutcomes(coll, budget)

DeleteOutcomes(coll, name, budget) ==
  (IF Named(coll, name) = {}
   THEN {[coll |-> coll, obj |-> EmptyObject, err |-> ErrNotFound]}
   ELSE {[coll |-> coll \ Named(coll, name), obj |-> EmptyObject, err |-> Nil]})
  \cup FaultOutcomes(coll, budget)

\* ------------------------------------------------------------------- state
VARIABLES
  deployments,  \* [Namespaces -> set of stored deployments]
  services,     \* [Namespaces -> set of stored services]
  replicaSets,  \* [Namespaces -> set of replica sets labelled app=kong,name=kong]
  version,      \* the store's resource version counter
  ctrlView,     \* [Namespaces -> BOOLEAN] the deployment controller's cached view
  pc,           \* [Procs -> position of the worker in its current call]
  call,         \* [Procs -> the call being executed: op, namespace, arguments]
  obj,          \* [Procs -> the object the call fetched]
  items,        \* [Procs -> the replica sets listed and not yet deleted]
  err,          \* [Procs -> error of the last remote call]
  ret,          \* [Procs -> return value of the last finished call]
  todo,         \* [Procs -> the calls of the current job still to make]
  job,          \* [Procs -> the job the caller runs: kind and desired state]
  issued,       \* [Procs -> the remote calls issued by the current call, in order]
  getErr,       \* [Procs -> error of the current call's lookup]
  clean,        \* [Procs -> no remote call of the current job has failed]
  fetched,      \* [Procs -> the object as the current call's lookup returned it]
  prior,        \* [Procs -> the ensure of the workload that preceded the current call]
  lastEnsure,   \* [Namespaces -> the last clean CreateKongDeployment, if still valid]
  jobs,         \* jobs started
  faults,       \* faults that may still be injected
  edits,        \* external edits that may still happen
  rsMade,       \* replica sets the controller has created
  clusters,     \* the KongCluster resources that exist
  queue,        \* the events not yet processed, oldest first
  events,       \* events emitted
  listed,       \* [Procs -> the replica sets the current call's List returned]
  tried,        \* [Procs -> the replica set Deletes of the current call: name and error]
  attempts,     \* [Procs -> list requests the current call has issued]
  thirdPartyResources, \* the stored third party resources
  apiUp,        \* the store answers requests on the KongClusters resource
  stopchan,     \* the stop channel of MonitorKongEvents: "open" or "closed"
  controller,   \* the goroutine running controller.Run: "none", "running", "stopped"
  notifications, \* notifications of the watch not yet handled, oldest first
  cache,        \* the KongCluster objects the informer knows
  objType,      \* [object id -> the Type field of that KongCluster object]
  sending,      \* the sends of the running handler still to complete
  consumer,     \* the receiver of the events channel: "receiving" or "gone"
  received,     \* the events the consumer has received, oldest first
  handled       \* the notifications handed to a handler, oldest first

storeVars == <<deployments, services, replicaSets, version, ctrlView>>
procVars == <<pc, call, obj, items, err, ret, todo, job>>
histVars == <<issued, getErr, clean, fetched, prior, lastEnsure>>
budgetVars == <<jobs, faults, edits, rsMade>>
eventVars == <<clusters, queue, events>>
callVars == <<listed, tried, attempts>>
watchVars == <<stopchan, controller, notifications, cache, objType, sending,
               consumer, received, handled>>
envVars == <<thirdPartyResources, apiUp, watchVars>>
vars == <<storeVars, procVars, histVars, budgetVars, eventVars, callVars, envVars>>


\* ----------------------------------------------------------------- callers
Call(op, ns, replicas, image) ==
  [op |-> op, ns |-> ns, replicas |-> replicas, image |-> image]
NoCall == Call("", "", NilPtr, "")
NoJob == [kind |-> "none", ns |-> "", replicas |-> 0, image |-> ""]
NoEnsure == [valid |-> FALSE, replicas |-> 0, image |-> "", objs |-> {}]

\* The stored objects without the store's version stamp.
Strip(coll) == {[s EXCEPT !.rv = 0] : s \in coll}

\* The desired count reaches CreateKongDeployment as a pointer into the
\* caller's cluster description.
EnsurePass(ns, r, i) ==
  << Call("CreateKongProxyService", ns, NilPtr, ""),
     Call("CreateKongAdminService", ns, NilPtr, ""),
     Call("CreateKongDeployment", ns, ArgPtr(r), i) >>

TeardownPass(ns) ==
  << Call("DeleteKongDeployment", ns, NilPtr, ""),
     Call("DeleteProxyService", ns, NilPtr, ""),
     Call("DeleteAdminService", ns, NilPtr, "") >>

\* A caller of the package makes any single call, or one of the two passes.
EnsureCalls ==
  { <<Call(op, ns, NilPtr, "")>> :
      op \in {"CreateKongProxyService", "CreateKongAdminService"},
      ns \in Namespaces }
  \cup { <<Call("CreateKongDeployment", ns, ArgPtr(r), i)>> :
           ns \in Namespaces, r \in ReplicaCounts, i \in Images }

TeardownCalls ==
  { <<Call(op, ns, NilPtr, "")>> :
      op \in {"DeleteKongDeployment", "DeleteProxyService", "DeleteAdminService"},
      ns \in Namespaces }

Entry(op) ==
  IF op \in {"DeleteProxyService", "DeleteAdminService"} THEN "delete" ELSE "get"

\* The worker enters call c: its locals are fresh.
Enter(p, c) ==
  /\ call' = [call EXCEPT ![p] = c]
  /\ pc' = [pc EXCEPT ![p] = Entry(c.op)]
  /\ obj' = [obj EXCEPT ![p] = EmptyObject]
  /\ items' = [items EXCEPT ![p] = <<>>]
  /\ err' = [err EXCEPT ![p] = Nil]
  /\ ret' = [ret EXCEPT ![p] = Nil]
  /\ issued' = [issued EXCEPT ![p] = <<>>]
  /\ getErr' = [getErr EXCEPT ![p] = Nil]
  /\ fetched' = [fetched EXCEPT ![p] = EmptyObject]
  /\ prior' = [prior EXCEPT ![p] =
                 IF c.op = "CreateKongDeployment" THEN lastEnsure[c.ns] ELSE NoEnsure]
  /\ listed' = [listed EXCEPT ![p] = <<>>]
  /\ tried' = [tried EXCEPT ![p] = <<>>]
  /\ attempts' = [attempts EXCEPT ![p] = 0]

Dispatch(p, kind, prog, r, i) ==
  /\ pc[p] = "idle"
  /\ todo[p] = <<>>
  /\ jobs' = jobs + 1
  /\ job' = [job EXCEPT ![p] =
               [kind |-> kind, ns |-> prog[1].ns, replicas |-> r, image |-> i]]
  /\ todo' = [todo EXCEPT ![p] = Tail(prog)]
  /\ clean' = [clean EXCEPT ![p] = TRUE]
  /\ Enter(p, prog[1])
  /\ UNCHANGED <<storeVars, lastEnsure, faults, edits, rsMade>>

DispatchEnsureCall(p) ==
  /\ jobs < MaxJobs
  /\ \E prog \in EnsureCalls :
       Dispatch(p, "call", prog, prog[1].replicas.val, prog[1].image)
  /\ UNCHANGED <<envVars, eventVars>>

DispatchTeardownCall(p) ==
  /\ jobs < MaxJobs
  /\ \E prog \in TeardownCalls : Dispatch(p, "call", prog, 0, "")
  /\ UNCHANGED <<envVars, eventVars>>

DispatchTeardown(p) ==
  /\ jobs < MaxJobs
  /\ \E ns \in Namespaces : Dispatch(p, "teardown", TeardownPass(ns), 0, "")
  /\ UNCHANGED <<envVars, eventVars>>

\* Two ensure passes for the same namespace and the same desired count, one
\* per worker (one triggered by an event, one periodic).
DispatchPass(p) ==
  /\ job[p].kind = "none"
  /\ \E ns \in Namespaces, r \in ReplicaCounts, i \in Images :
       /\ \A q \in Procs \ {p} :
            job[q].kind = "none" \/ (job[q].ns = ns /\ job[q].replicas = r)
       /\ Dispatch(p, "ensure", EnsurePass(ns, r, i), r, i)
  /\ UNCHANGED <<envVars, eventVars>>

\* The caller goes on to the next call of the pass.
NextCall(p) ==
  /\ pc[p] = "idle"
  /\ todo[p] # <<>>
  /\ todo' = [todo EXCEPT ![p] = Tail(@)]
  /\ Enter(p, Head(todo[p]))
  /\ UNCHANGED <<envVars, eventVars, storeVars, job, clean, lastEnsure, budgetVars>>

\* The caller may give an ensure pass up after a call that returned an error.
AbortPass(p) ==
  /\ pc[p] = "idle"
  /\ job[p].kind = "ensure"
  /\ todo[p] # <<>>
  /\ ret[p] # Nil
  /\ todo' = [todo EXCEPT ![p] = <<>>]
  /\ UNCHANGED <<envVars, callVars, eventVars, storeVars, pc, call, obj, items, err, ret, job, histVars, budgetVars>>

\* ------------------------------------------------------ steps of a worker
\* Bookkeeping of one remote call with outcome r; benign tells whether the
\* outcome counts as a failure of the job.
Remote(p, name, r, benign) ==
  /\ err' = [err EXCEPT ![p] = r.err]
  /\ issued' = [issued EXCEPT ![p] = Append(@, name)]
  /\ clean' = [clean EXCEPT ![p] = @ /\ benign]
  /\ faults' = IF r.err = ErrTimeout THEN faults - 1 ELSE faults

Return(p, e) ==
  /\ pc' = [pc EXCEPT ![p] = "idle"]
  /\ ret' = [ret EXCEPT ![p] = e]

Goto(p, label) ==
  /\ pc' = [pc EXCEPT ![p] = label]
  /\ UNCHANGED ret


\* ---------------------------------- CreateKongProxyService, ...AdminService
\* What the code does with the result (o, e) of the lookup: the object's
\* name is tested first, the error only when the name is not empty.
\* Mutant: a service that is found is created again.
ServiceAfterGetAlwaysCreate(o, e) ==
  IF o.name # "" /\ e # Nil THEN "returnErr" ELSE "create"

ServiceAfterGet(o, e) ==
  IF o.name = "" THEN "create"
  ELSE IF e # Nil THEN "returnErr"
  ELSE "returnNil"

ServiceOf(op) ==
  IF op = "CreateKongProxyService" THEN ProxyService ELSE AdminService

ServiceGet(p, op) ==
  /\ pc[p] = "get"
  /\ call[p].op = op
  /\ \E r \in GetOutcomes(services[call[p].ns], ServiceOf(op).name, faults) :
       /\ Remote(p, "Get", r, r.err \in {Nil, ErrNotFound})
       /\ obj' = [obj EXCEPT ![p] = r.obj]
       /\ getErr' = [getErr EXCEPT ![p] = r.err]
       /\ fetched' = [fetched EXCEPT ![p] = r.obj]
       /\ CASE ServiceAfterGet(r.obj, r.err) = "create" -> Goto(p, "create")
            [] ServiceAfterGet(r.obj, r.err) = "returnErr" -> Return(p, r.err)
            [] OTHER -> Return(p, Nil)
  /\ UNCHANGED <<envVars, callVars, eventVars, storeVars, call, items, todo, job, prior, lastEnsure,
                 jobs, edits, rsMade>>

ServiceCreate(p, op) ==
  /\ pc[p] = "create"
  /\ call[p].op = op
  /\ \E r \in CreateOutcomes(services[call[p].ns], ServiceOf(op), version, faults) :
       /\ Remote(p, "Create", r, r.err = Nil)
       /\ services' = [services EXCEPT ![call[p].ns] = r.coll]
       /\ version' = IF r.err = Nil THEN version + 1 ELSE version
       /\ Return(p, r.err)
  /\ UNCHANGED <<envVars, callVars, eventVars, deployments, replicaSets, ctrlView, call, obj, items, todo, job,
                 getErr, fetched, prior, lastEnsure, jobs, edits, rsMade>>

CreateKongProxyService(p) ==
  \/ ServiceGet(p, "CreateKongProxyService")
  \/ ServiceCreate(p, "CreateKongProxyService")

CreateKongAdminService(p) ==
  \/ ServiceGet(p, "CreateKongAdminService")
  \/ ServiceCreate(p, "CreateKongAdminService")

\* ------------------------------------ DeleteProxyService, DeleteAdminService
ServiceDelete(p, op, name) ==
  /\ pc[p] = "delete"
  /\ call[p].op = op
  /\ \E r \in DeleteOutcomes(services[call[p].ns], name, faults) :
       /\ Remote(p, "Delete", r, r.err = Nil)
       /\ services' = [services EXCEPT ![call[p].ns] = r.coll]
       /\ Return(p, r.err)
  /\ UNCHANGED <<envVars, callVars, eventVars, deployments, replicaSets, version, ctrlView, call, obj, items,
                 todo, job, getErr, fetched, prior, lastEnsure, jobs, edits, rsMade>>

DeleteProxyService(p) == ServiceDelete(p, "DeleteProxyService", kongProxyServiceName)

DeleteAdminService(p) == ServiceDelete(p, "DeleteAdminService", kongAdminServiceName)

\* ----------------------------------------------------- CreateKongDeployment
\* The branch taken on the result (o, e) of the lookup.  The scale test
\* compares the fetched object's Replicas pointer with the caller's pointer.
DeploymentAfterGet(o, e, replicas) ==
  IF o.name = "" THEN "create"
  ELSE IF e # Nil THEN "returnErr"
  ELSE IF PtrNeq(o.replicas, replicas) THEN "update"
  ELSE "returnNil"

\* Mutant: the assignment of the desired count is missing.
ScaledDeploymentUnassigned(o, replicas) == o

\* Mutant: the update sends a rebuilt object instead of the fetched one.
ScaledDeploymentRebuilt(o, replicas) ==
  [o EXCEPT !.replicas = replicas, !.image = ""]

\* deployment.Spec.Replicas = replicas on the fetched object.
ScaledDeployment(o, replicas) == [o EXCEPT !.replicas = replicas]

\* The value returned after the Create, and after the scale Update.
CreateReturn(e) == IF e # Nil THEN e ELSE Nil

UpdateReturn(e) == Nil

Ensured(p, coll) ==
  [valid |-> TRUE, replicas |-> call[p].replicas.val, image |-> call[p].image,
   objs |-> Strip(coll)]

CreateKongDeploymentGet(p) ==
  /\ pc[p] = "get"
  /\ call[p].op = "CreateKongDeployment"
  /\ \E r \in GetOutcomes(deployments[call[p].ns], kongDeploymentName, faults) :
       LET branch == DeploymentAfterGet(r.obj, r.err, call[p].replicas) IN
       /\ Remote(p, "Get", r, r.err \in {Nil, ErrNotFound})
       /\ obj' = [obj EXCEPT ![p] = r.obj]
       /\ getErr' = [getErr EXCEPT ![p] = r.err]
       /\ fetched' = [fetched EXCEPT ![p] = r.obj]
       /\ CASE branch = "create" -> Goto(p, "create")
            [] branch = "update" -> Goto(p, "update")
            [] branch = "returnErr" -> Return(p, r.err)
            [] OTHER -> Return(p, Nil)
       /\ lastEnsure' =
            IF branch = "returnErr" THEN [lastEnsure EXCEPT ![call[p].ns] = NoEnsure]
            ELSE IF branch = "returnNil"
            THEN [lastEnsure EXCEPT ![call[p].ns] = Ensured(p, deployments[call[p].ns])]
            ELSE lastEnsure
  /\ UNCHANGED <<envVars, callVars, eventVars, storeVars, call, items, todo, job, prior, jobs, edits, rsMade>>

CreateKongDeploymentCreate(p) ==
  /\ pc[p] = "create"
  /\ call[p].op = "CreateKongDeployment"
  /\ \E r \in CreateOutcomes(deployments[call[p].ns],
                             NewDeployment(call[p].image, call[p].replicas),
                             version, faults) :
       /\ Remote(p, "Create", r, r.err = Nil)
       /\ deployments' = [deployments EXCEPT ![call[p].ns] = r.coll]
       /\ version' = IF r.err = Nil THEN version + 1 ELSE version
       /\ Return(p, CreateReturn(r.err))
       /\ lastEnsure' = [lastEnsure EXCEPT ![call[p].ns] =
                           IF r.err = Nil /\ getErr[p] = ErrNotFound
                           THEN Ensured(p, r.coll) ELSE NoEnsure]
  /\ UNCHANGED <<envVars, callVars, eventVars, services, replicaSets, ctrlView, call, obj, items, todo, job,
                 getErr, fetched, prior, jobs, edits, rsMade>>

CreateKongDeploymentUpdate(p) ==
  /\ pc[p] = "update"
  /\ call[p].op = "CreateKongDeployment"
  /\ \E r \in UpdateOutcomes(deployments[call[p].ns],
                             ScaledDeployment(obj[p], call[p].replicas),
                             version, faults) :
       /\ Remote(p, "Update", r, r.err = Nil)
       /\ obj' = [obj EXCEPT ![p] = ScaledDeployment(obj[p], call[p].replicas)]
       /\ deployments' = [deployments EXCEPT ![call[p].ns] = r.coll]
       /\ version' = IF r.err = Nil THEN version + 1 ELSE version
       /\ Return(p, UpdateReturn(r.err))
       /\ lastEnsure' = [lastEnsure EXCEPT ![call[p].ns] =
                           IF r.err = Nil THEN Ensured(p, r.coll) ELSE NoEnsure]
  /\ UNCHANGED <<envVars, callVars, eventVars, services, replicaSets, ctrlView, call, items, todo, job,
                 getErr, fetched, prior, jobs, edits, rsMade>>

CreateKongDeployment(p) ==
  \/ CreateKongDeploymentGet(p)
  \/ CreateKongDeploymentCreate(p)
  \/ CreateKongDeploymentUpdate(p)


\* ----------------------------------------------------- DeleteKongDeployment
\* Mutant: the teardown goes on when the workload is reported missing.
TeardownAfterGetUnlessMissing(e) ==
  IF e \notin {Nil, ErrNotFound} THEN "return" ELSE "scale"

\* Mutant: the workload is deleted without being scaled down first.
TeardownAfterGetSkipScale(e) == IF e # Nil THEN "return" ELSE "delete"

\* The teardown stops when its lookup fails, with any error.
TeardownAfterGet(e) == IF e # Nil THEN "return" ELSE "scale"

\* deployment.Spec.Replicas = new(int32).
ZeroedDeployment(o) == [o EXCEPT !.replicas = NewInt32]

RECURSIVE ByName(_)
ByName(S) ==
  IF S = {} THEN <<>>
  ELSE LET m == CHOOSE x \in S : \A y \in S : x.name <= y.name
       IN <<m>> \o ByName(S \ {m})

\* List with the selector app=kong,name=kong; a failed List hands back an
\* empty list.
ListOutcomes(coll, budget) ==
  {[coll |-> coll, obj |-> ByName(coll), err |-> Nil]}
  \cup (IF budget > 0 THEN {[coll |-> coll, obj |-> <<>>, err |-> ErrTimeout]} ELSE {})

DeleteKongDeploymentGet(p) ==
  /\ pc[p] = "get"
  /\ call[p].op = "DeleteKongDeployment"
  /\ \E r \in GetOutcomes(deployments[call[p].ns], kongDeploymentName, faults) :
       /\ Remote(p, "Get", r, r.err = Nil)
       /\ obj' = [obj EXCEPT ![p] = r.obj]
       /\ getErr' = [getErr EXCEPT ![p] = r.err]
       /\ fetched' = [fetched EXCEPT ![p] = r.obj]
       /\ IF TeardownAfterGet(r.err) = "return"
          THEN Return(p, r.err)
          ELSE Goto(p, TeardownAfterGet(r.err))
  /\ UNCHANGED <<envVars, callVars, eventVars, storeVars, call, items, todo, job, prior, lastEnsure,
                 jobs, edits, rsMade>>

\* The Update's error is logged and the returned object is dropped.
DeleteKongDeploymentScale(p) ==
  /\ pc[p] = "scale"
  /\ call[p].op = "DeleteKongDeployment"
  /\ \E r \in UpdateOutcomes(deployments[call[p].ns], ZeroedDeployment(obj[p]),
                             version, faults) :
       /\ Remote(p, "Update", r, r.err = Nil)
       /\ obj' = [obj EXCEPT ![p] = ZeroedDeployment(obj[p])]
       /\ deployments' = [deployments EXCEPT ![call[p].ns] = r.coll]
       /\ version' = IF r.err = Nil THEN version + 1 ELSE version
       /\ lastEnsure' = IF r.err = Nil
                        THEN [lastEnsure EXCEPT ![call[p].ns] = NoEnsure]
                        ELSE lastEnsure
       /\ Goto(p, "delete")
  /\ UNCHANGED <<envVars, callVars, eventVars, services, replicaSets, ctrlView, call, items, todo, job,
                 getErr, fetched, prior, jobs, edits, rsMade>>

DeleteKongDeploymentDelete(p) ==
  /\ pc[p] = "delete"
  /\ call[p].op = "DeleteKongDeployment"
  /\ \E r \in DeleteOutcomes(deployments[call[p].ns], obj[p].name, faults) :
       /\ Remote(p, "Delete", r, r.err = Nil)
       /\ deployments' = [deployments EXCEPT ![call[p].ns] = r.coll]
       /\ lastEnsure' = IF r.err = Nil
                        THEN [lastEnsure EXCEPT ![call[p].ns] = NoEnsure]
                        ELSE lastEnsure
       /\ Goto(p, "list")
  /\ UNCHANGED <<envVars, callVars, eventVars, services, replicaSets, version, ctrlView, call, obj, items, todo,
                 job, getErr, fetched, prior, jobs, edits, rsMade>>

\* Mutant: the range stops at the first Delete that fails.
AfterDeleteRSAbort(e, rest) ==
  IF e # Nil \/ rest = <<>> THEN "return" ELSE "deleteRS"

\* The range over replicaSets.Items goes on whatever the Delete returned.
AfterDeleteRS(e, rest) == IF rest = <<>> THEN "return" ELSE "deleteRS"

\* After the sleep: list the replica sets, then range over the items.
DeleteKongDeploymentList(p) ==
  /\ pc[p] = "list"
  /\ call[p].op = "DeleteKongDeployment"
  /\ \E r \in ListOutcomes(replicaSets[call[p].ns], faults) :
       /\ Remote(p, "List", r, r.err = Nil)
       /\ items' = [items EXCEPT ![p] = r.obj]
       /\ listed' = [listed EXCEPT ![p] = r.obj]
       /\ IF r.obj = <<>> THEN Return(p, Nil) ELSE Goto(p, "deleteRS")
  /\ UNCHANGED <<envVars, tried, attempts, eventVars, storeVars, call, obj, todo, job, getErr, fetched, prior, lastEnsure,
                 jobs, edits, rsMade>>

DeleteKongDeploymentDeleteRS(p) ==
  /\ pc[p] = "deleteRS"
  /\ call[p].op = "DeleteKongDeployment"
  /\ \E r \in DeleteOutcomes(replicaSets[call[p].ns], Head(items[p]).name, faults) :
       /\ Remote(p, "DeleteRS", r, r.err = Nil)
       /\ replicaSets' = [replicaSets EXCEPT ![call[p].ns] = r.coll]
       /\ items' = [items EXCEPT ![p] = Tail(@)]
       /\ tried' = [tried EXCEPT ![p] =
                      Append(@, [name |-> Head(items[p]).name, err |-> r.err])]
       /\ IF AfterDeleteRS(r.err, Tail(items[p])) = "return"
          THEN Return(p, Nil)
          ELSE Goto(p, "deleteRS")
  /\ UNCHANGED <<envVars, listed, attempts, eventVars, deployments, services, version, ctrlView, call, obj, todo, job,
                 getErr, fetched, prior, lastEnsure, jobs, edits, rsMade>>

DeleteKongDeployment(p) ==
  \/ DeleteKongDeploymentGet(p)
  \/ DeleteKongDeploymentScale(p)
  \/ DeleteKongDeploymentDelete(p)
  \/ DeleteKongDeploymentList(p)
  \/ DeleteKongDeploymentDeleteRS(p)

\* ------------------------------------------------------------- environment
\* Someone else edits the stored deployment: its count, its image or both.
ExternalEdit(ns) ==
  /\ edits > 0
  /\ \E s \in Named(deployments[ns], kongDeploymentName),
        r \in ReplicaCounts, i \in Images :
       /\ <<r, i>> # <<s.replicas, s.image>>
       /\ deployments' = [deployments EXCEPT ![ns] =
            (@ \ {s}) \cup {[s EXCEPT !.replicas = r, !.image = i, !.rv = version + 1]}]
  /\ version' = version + 1
  /\ edits' = edits - 1
  /\ lastEnsure' = [lastEnsure EXCEPT ![ns] = NoEnsure]
  /\ prior' = [q \in Procs |-> IF call[q].ns = ns THEN NoEnsure ELSE prior[q]]
  /\ UNCHANGED <<envVars, callVars, eventVars, services, replicaSets, ctrlView, procVars,
                 issued, getErr, clean, fetched, jobs, faults, rsMade>>

\* The deployment controller works from a cache of the store that follows
\* the store with a delay.
ControllerSync(ns) ==
  /\ ctrlView[ns] # (Named(deployments[ns], kongDeploymentName) # {})
  /\ ctrlView' = [ctrlView EXCEPT ![ns] = ~@]
  /\ UNCHANGED <<envVars, callVars, eventVars, deployments, services, replicaSets, version, procVars, histVars,
                 budgetVars>>

\* It creates the replica set of a deployment it sees and that has none.
ControllerCreateRS(ns) ==
  /\ ctrlView[ns]
  /\ replicaSets[ns] = {}
  /\ rsMade < MaxRS
  /\ replicaSets' = [replicaSets EXCEPT ![ns] = {[name |-> rsMade + 1]}]
  /\ rsMade' = rsMade + 1
  /\ UNCHANGED <<envVars, callVars, eventVars, deployments, services, version, ctrlView, procVars, histVars,
                 jobs, faults, edits>>

\* ------------------------------------------------------------------- specs
Stored(o) == [Encode(o) EXCEPT !.rv = 1]

\* A namespace starts empty, or with the objects of an earlier ensure pass.
InitStore ==
  /\ deployments \in [Namespaces ->
       {{}} \cup {{Stored(NewDeployment(i, ArgPtr(r)))} :
                    r \in ReplicaCounts, i \in Images}]
  /\ services = [ns \in Namespaces |->
       IF deployments[ns] = {} THEN {}
       ELSE {Stored(ProxyService), Stored(AdminService)}]
  /\ replicaSets = [ns \in Namespaces |-> {}]
  /\ version = 1
  /\ ctrlView = [ns \in Namespaces |-> deployments[ns] # {}]

InitProcs ==
  /\ pc = [p \in Procs |-> "idle"]
  /\ call = [p \in Procs |-> NoCall]
  /\ obj = [p \in Procs |-> EmptyObject]
  /\ items = [p \in Procs |-> <<>>]
  /\ err = [p \in Procs |-> Nil]
  /\ ret = [p \in Procs |-> Nil]
  /\ todo = [p \in Procs |-> <<>>]
  /\ job = [p \in Procs |-> NoJob]
  /\ issued = [p \in Procs |-> <<>>]
  /\ getErr = [p \in Procs |-> Nil]
  /\ clean = [p \in Procs |-> TRUE]
  /\ fetched = [p \in Procs |-> EmptyObject]
  /\ prior = [p \in Procs |-> NoEnsure]
  /\ lastEnsure = [ns \in Namespaces |-> NoEnsure]
  /\ listed = [p \in Procs |-> <<>>]
  /\ tried = [p \in Procs |-> <<>>]
  /\ attempts = [p \in Procs |-> 0]

\* Nothing is registered, no watch runs.
ObjectIds == 1 .. MaxEvents

InitEnv ==
  /\ thirdPartyResources = {}
  /\ apiUp = TRUE
  /\ stopchan = "open"
  /\ controller = "none"
  /\ notifications = <<>>
  /\ cache = {}
  /\ objType = [k \in ObjectIds |-> ""]
  /\ sending = <<>>
  /\ consumer = "receiving"
  /\ received = <<>>
  /\ handled = <<>>

Init ==
  /\ InitStore
  /\ InitProcs
  /\ InitEnv
  /\ jobs = 0
  /\ faults = MaxFaults
  /\ edits = MaxEdits
  /\ rsMade = 0
  /\ clusters = {}
  /\ queue = <<>>
  /\ events = 0

\* One caller making ensure calls one after the other, while the stored
\* deployment may be edited by others.
Caller == CHOOSE p \in Procs : \A q \in Procs : p <= q

Next ==
  \/ DispatchEnsureCall(Caller)
  \/ CreateKongProxyService(Caller)
  \/ CreateKongAdminService(Caller)
  \/ CreateKongDeployment(Caller)
  \/ \E ns \in Namespaces : ExternalEdit(ns)

Spec == Init /\ [][Next]_vars

\* One caller making teardown calls and teardown passes, beside the
\* deployment controller and other editors.
NextTeardown ==
  \/ DispatchTeardownCall(Caller)
  \/ DispatchTeardown(Caller)
  \/ NextCall(Caller)
  \/ DeleteKongDeployment(Caller)
  \/ DeleteProxyService(Caller)
  \/ DeleteAdminService(Caller)
  \/ \E ns \in Namespaces : ExternalEdit(ns)
  \/ \E ns \in Namespaces : ControllerSync(ns)
  \/ \E ns \in Namespaces : ControllerCreateRS(ns)

SpecTeardown == Init /\ [][NextTeardown]_vars


\* Two workers, each running one ensure pass; the store answers every
\* request.
InitPasses ==
  /\ InitStore
  /\ InitProcs
  /\ InitEnv
  /\ jobs = 0
  /\ faults = 0
  /\ edits = 0
  /\ rsMade = 0
  /\ clusters = {}
  /\ queue = <<>>
  /\ events = 0

NextPasses ==
  \E p \in Procs :
    \/ DispatchPass(p)
    \/ NextCall(p)
    \/ AbortPass(p)
    \/ CreateKongProxyService(p)
    \/ CreateKongAdminService(p)
    \/ CreateKongDeployment(p)

SpecPasses == InitPasses /\ [][NextPasses]_vars

\* Two workers calling the two service operations in a namespace whose
\* services, where they exist, may have been changed by others since they
\* were created.
DriftedService(s) ==
  [s EXCEPT !.type = "NodePort", !.ports = << <<8080, 8000, "TCP">> >>,
            !.ranges = <<>>]

DispatchServiceCall(p) ==
  /\ jobs < MaxJobs
  /\ \E op \in {"CreateKongProxyService", "CreateKongAdminService"},
        ns \in Namespaces :
       Dispatch(p, "call", <<Call(op, ns, NilPtr, "")>>, 0, "")
  /\ UNCHANGED <<envVars, eventVars>>

InitServices ==
  /\ deployments = [ns \in Namespaces |-> {}]
  /\ services \in [Namespaces ->
       { P \cup A :
           P \in {{}, {Stored(ProxyService)}, {Stored(DriftedService(ProxyService))}},
           A \in {{}, {Stored(AdminService)}, {Stored(DriftedService(AdminService))}} }]
  /\ replicaSets = [ns \in Namespaces |-> {}]
  /\ version = 1
  /\ ctrlView = [ns \in Namespaces |-> FALSE]
  /\ InitProcs
  /\ InitEnv
  /\ jobs = 0
  /\ faults = MaxFaults
  /\ edits = 0
  /\ rsMade = 0
  /\ clusters = {}
  /\ queue = <<>>
  /\ events = 0

NextServices ==
  \E p \in Procs :
    \/ DispatchServiceCall(p)
    \/ CreateKongProxyService(p)
    \/ CreateKongAdminService(p)

SpecServices == InitServices /\ [][NextServices]_vars

\* One caller tearing the deployment down in a namespace that holds any
\* number of its replica sets; the garbage collector may remove a replica
\* set of a deployment that is gone before the caller does.
ReplicaSetNames == 1 .. MaxListed

DispatchDeleteKongDeployment(p) ==
  /\ jobs < MaxJobs
  /\ \E ns \in Namespaces :
       Dispatch(p, "call", <<Call("DeleteKongDeployment", ns, NilPtr, "")>>, 0, "")
  /\ UNCHANGED <<envVars, eventVars>>

CollectReplicaSet(ns) ==
  /\ Named(deployments[ns], kongDeploymentName) = {}
  /\ \E s \in replicaSets[ns] :
       replicaSets' = [replicaSets EXCEPT ![ns] = @ \ {s}]
  /\ UNCHANGED <<envVars, callVars, eventVars, deployments, services, version, ctrlView,
                 procVars, histVars, budgetVars>>

InitReplicaSets ==
  /\ deployments \in [Namespaces ->
       {{Stored(NewDeployment(i, ArgPtr(r)))} : r \in ReplicaCounts, i \in Images}]
  /\ services = [ns \in Namespaces |-> {Stored(ProxyService), Stored(AdminService)}]
  /\ replicaSets \in [Namespaces ->
       {{[name |-> k] : k \in S} : S \in SUBSET ReplicaSetNames}]
  /\ version = 1
  /\ ctrlView = [ns \in Namespaces |-> TRUE]
  /\ InitProcs
  /\ InitEnv
  /\ jobs = 0
  /\ faults = MaxFaults
  /\ edits = 0
  /\ rsMade = 0
  /\ clusters = {}
  /\ queue = <<>>
  /\ events = 0

NextReplicaSets ==
  \/ DispatchDeleteKongDeployment(Caller)
  \/ DeleteKongDeployment(Caller)
  \/ \E ns \in Namespaces : CollectReplicaSet(ns)

SpecReplicaSets == InitReplicaSets /\ [][NextReplicaSets]_vars

\* ------------------------------------------------------------------ events
ClusterNames == {"c1", "c2"}

Cluster(n, ns, r, i) == [name |-> n, ns |-> ns, replicas |-> r, image |-> i]
Event(type, c) == [type |-> type, cluster |-> c]

\* A KongCluster's name is unique within its namespace.
UserCreate ==
  /\ events < MaxEvents
  /\ \E n \in ClusterNames, ns \in Namespaces, r \in ReplicaCounts, i \in Images :
       /\ \A c \in clusters : <<c.name, c.ns>> # <<n, ns>>
       /\ clusters' = clusters \cup {Cluster(n, ns, r, i)}
       /\ queue' = Append(queue, Event("ADDED", Cluster(n, ns, r, i)))
  /\ events' = events + 1
  /\ UNCHANGED <<envVars, callVars, storeVars, procVars, histVars, budgetVars>>

UserModify ==
  /\ events < MaxEvents
  /\ \E c \in clusters, r \in ReplicaCounts :
       /\ r # c.replicas
       /\ clusters' = (clusters \ {c}) \cup {[c EXCEPT !.replicas = r]}
       /\ queue' = Append(queue, Event("MODIFIED", [c EXCEPT !.replicas = r]))
  /\ events' = events + 1
  /\ UNCHANGED <<envVars, callVars, storeVars, procVars, histVars, budgetVars>>

UserDelete ==
  /\ events < MaxEvents
  /\ \E c \in clusters :
       /\ clusters' = clusters \ {c}
       /\ queue' = Append(queue, Event("DELETED", c))
  /\ events' = events + 1
  /\ UNCHANGED <<envVars, callVars, storeVars, procVars, histVars, budgetVars>>

\* An ADDED or MODIFIED event is processed by the ensure operations, a
\* DELETED event by the teardown operations, in the cluster's namespace.
ProcessEvent(p) ==
  /\ queue # <<>>
  /\ LET c == Head(queue).cluster IN
       IF Head(queue).type = "DELETED"
       THEN Dispatch(p, "teardown", TeardownPass(c.ns), 0, "")
       ELSE Dispatch(p, "ensure", EnsurePass(c.ns, c.replicas, c.image),
                     c.replicas, c.image)
  /\ queue' = Tail(queue)
  /\ UNCHANGED <<envVars, clusters, events>>

InitEvents ==
  /\ deployments = [ns \in Namespaces |-> {}]
  /\ services = [ns \in Namespaces |-> {}]
  /\ replicaSets = [ns \in Namespaces |-> {}]
  /\ version = 1
  /\ ctrlView = [ns \in Namespaces |-> FALSE]
  /\ InitProcs
  /\ InitEnv
  /\ jobs = 0
  /\ faults = 0
  /\ edits = 0
  /\ rsMade = 0
  /\ clusters = {}
  /\ queue = <<>>
  /\ events = 0

NextEvents ==
  \/ UserCreate
  \/ UserModify
  \/ UserDelete
  \/ ProcessEvent(Caller)
  \/ NextCall(Caller)
  \/ CreateKongProxyService(Caller)
  \/ CreateKongAdminService(Caller)
  \/ CreateKongDeployment(Caller)
  \/ DeleteKongDeployment(Caller)
  \/ DeleteProxyService(Caller)
  \/ DeleteAdminService(Caller)
  \/ \E ns \in Namespaces : ControllerSync(ns)
  \/ \E ns \in Namespaces : ControllerCreateRS(ns)

SpecEvents == InitEvents /\ [][NextEvents]_vars


\* ------------------------- CreateKubernetesThirdPartyResource, GetKongClusters
\* v1beta1.ThirdPartyResource literal of CreateKubernetesThirdPartyResource.
ThirdPartyResource ==
  [name |-> tprName, versions |-> << "v1" >>,
   description |-> "Managed kong clusters", rv |-> 0]

\* Mutant: every failed lookup leads to the Create.
TprAfterGetCreateOnError(e) == IF e = Nil THEN "skip" ELSE "create"

\* err == nil: skip; IsNotFound(err): create; any other error: panic.
TprAfterGet(e) ==
  IF e = Nil THEN "skip"
  ELSE IF e = ErrNotFound THEN "create"
  ELSE "panic"

TprAfterCreate(e) == IF e # Nil THEN "panic" ELSE "return"

\* panic(err): the process is gone.
Panic(p, e) ==
  /\ pc' = [pc EXCEPT ![p] = "panicked"]
  /\ ret' = [ret EXCEPT ![p] = e]

CreateKubernetesThirdPartyResourceGet(p) ==
  /\ pc[p] = "get"
  /\ call[p].op = "CreateKubernetesThirdPartyResource"
  /\ \E r \in GetOutcomes(thirdPartyResources, tprName, faults) :
       /\ Remote(p, "Get", r, r.err \in {Nil, ErrNotFound})
       /\ obj' = [obj EXCEPT ![p] = r.obj]
       /\ getErr' = [getErr EXCEPT ![p] = r.err]
       /\ fetched' = [fetched EXCEPT ![p] = r.obj]
       /\ CASE TprAfterGet(r.err) = "create" -> Goto(p, "create")
            [] TprAfterGet(r.err) = "panic" -> Panic(p, r.err)
            [] OTHER -> Return(p, Nil)
  /\ UNCHANGED <<envVars, callVars, eventVars, storeVars, call, items, todo, job, prior,
                 lastEnsure, jobs, edits, rsMade>>

CreateKubernetesThirdPartyResourceCreate(p) ==
  /\ pc[p] = "create"
  /\ call[p].op = "CreateKubernetesThirdPartyResource"
  /\ \E r \in CreateOutcomes(thirdPartyResources, ThirdPartyResource, version, faults) :
       /\ Remote(p, "Create", r, r.err = Nil)
       /\ thirdPartyResources' = r.coll
       /\ version' = IF r.err = Nil THEN version + 1 ELSE version
       /\ IF TprAfterCreate(r.err) = "panic" THEN Panic(p, r.err) ELSE Return(p, Nil)
  /\ UNCHANGED <<apiUp, watchVars, callVars, eventVars, deployments, services, replicaSets,
                 ctrlView, call, obj, items, todo, job, getErr, fetched, prior,
                 lastEnsure, jobs, edits, rsMade>>

CreateKubernetesThirdPartyResource(p) ==
  \/ CreateKubernetesThirdPartyResourceGet(p)
  \/ CreateKubernetesThirdPartyResourceCreate(p)

\* The items of a list in the order the store hands them out.
RECURSIVE InStoreOrder(_)
InStoreOrder(S) ==
  IF S = {} THEN <<>>
  ELSE LET m == CHOOSE x \in S : TRUE
       IN <<m>> \o InStoreOrder(S \ {m})

\* One request on the KongClusters resource: the list of the KongClusters
\* when the store answers, an error and nothing decoded otherwise.
KongClusterList(up, coll) ==
  IF up THEN [obj |-> InStoreOrder(coll), err |-> Nil]
  ELSE [obj |-> <<>>, err |-> ErrUnavailable]

\* Mutant: the loop is left after the first attempt, whatever it returned.
GetKongClustersAfterListOnce(e) == "return"

\* err != nil: sleep and continue; otherwise break.
GetKongClustersAfterList(e) == IF e # Nil THEN "retry" ELSE "return"

\* One pass through the loop body; the count of attempts is kept up to
\* MaxAttempts.
GetKongClusters(p) ==
  /\ pc[p] = "get"
  /\ call[p].op = "GetKongClusters"
  /\ LET r == KongClusterList(apiUp, clusters) IN
       /\ err' = [err EXCEPT ![p] = r.err]
       /\ items' = [items EXCEPT ![p] = IF r.err = Nil THEN r.obj ELSE @]
       /\ attempts' = [attempts EXCEPT ![p] = IF @ < MaxAttempts THEN @ + 1 ELSE @]
       /\ IF GetKongClustersAfterList(r.err) = "return"
          THEN Return(p, Nil)
          ELSE Goto(p, "get")
  /\ UNCHANGED <<envVars, listed, tried, eventVars, storeVars, call, obj, todo, job,
                 histVars, budgetVars>>

\* The store stops, and starts again, answering requests on KongClusters.
ApiFails ==
  /\ apiUp
  /\ apiUp' = FALSE
  /\ UNCHANGED <<thirdPartyResources, watchVars, callVars, eventVars, storeVars, procVars,
                 histVars, budgetVars>>

ApiRecovers ==
  /\ ~apiUp
  /\ apiUp' = TRUE
  /\ UNCHANGED <<thirdPartyResources, watchVars, callVars, eventVars, storeVars, procVars,
                 histVars, budgetVars>>

\* Two operator processes registering the schema as they start, in a store
\* that may hold it already, as this literal or as an earlier release
\* registered it.  A process that panicked may be started again.
EarlierThirdPartyResource ==
  [ThirdPartyResource EXCEPT !.versions = << "v1alpha1" >>, !.description = ""]

Restart(p) ==
  /\ pc[p] = "panicked"
  /\ pc' = [pc EXCEPT ![p] = "idle"]
  /\ UNCHANGED <<envVars, callVars, eventVars, storeVars, call, obj, items, err, ret, todo,
                 job, histVars, budgetVars>>

DispatchBootstrap(p) ==
  /\ jobs < MaxJobs
  /\ Dispatch(p, "call", <<Call("CreateKubernetesThirdPartyResource", "", NilPtr, "")>>,
              0, "")
  /\ UNCHANGED <<envVars, eventVars>>

InitBootstrap ==
  /\ deployments = [ns \in Namespaces |-> {}]
  /\ services = [ns \in Namespaces |-> {}]
  /\ replicaSets = [ns \in Namespaces |-> {}]
  /\ version = 1
  /\ ctrlView = [ns \in Namespaces |-> FALSE]
  /\ InitProcs
  /\ thirdPartyResources \in {{}, {Stored(ThirdPartyResource)},
                              {Stored(EarlierThirdPartyResource)}}
  /\ apiUp = TRUE
  /\ stopchan = "open"
  /\ controller = "none"
  /\ notifications = <<>>
  /\ cache = {}
  /\ objType = [k \in ObjectIds |-> ""]
  /\ sending = <<>>
  /\ consumer = "receiving"
  /\ received = <<>>
  /\ handled = <<>>
  /\ jobs = 0
  /\ faults = MaxFaults
  /\ edits = 0
  /\ rsMade = 0
  /\ clusters = {}
  /\ queue = <<>>
  /\ events = 0

NextBootstrap ==
  \E p \in Procs :
    \/ DispatchBootstrap(p)
    \/ CreateKubernetesThirdPartyResource(p)
    \/ Restart(p)

SpecBootstrap == InitBootstrap /\ [][NextBootstrap]_vars

\* One caller listing the KongClusters while they come and go and while the
\* store may stop answering.
InitList ==
  /\ deployments = [ns \in Namespaces |-> {}]
  /\ services = [ns \in Namespaces |-> {}]
  /\ replicaSets = [ns \in Namespaces |-> {}]
  /\ version = 1
  /\ ctrlView = [ns \in Namespaces |-> FALSE]
  /\ InitProcs
  /\ thirdPartyResources = {Stored(ThirdPartyResource)}
  /\ apiUp \in BOOLEAN
  /\ stopchan = "open"
  /\ controller = "none"
  /\ notifications = <<>>
  /\ cache = {}
  /\ objType = [k \in ObjectIds |-> ""]
  /\ sending = <<>>
  /\ consumer = "receiving"
  /\ received = <<>>
  /\ handled = <<>>
  /\ jobs = 0
  /\ faults = 0
  /\ edits = 0
  /\ rsMade = 0
  /\ clusters = {}
  /\ queue = <<>>
  /\ events = 0

DispatchGetKongClusters(p) ==
  /\ jobs < MaxJobs
  /\ Dispatch(p, "call", <<Call("GetKongClusters", "", NilPtr, "")>>, 0, "")
  /\ UNCHANGED <<envVars, eventVars>>

NextList ==
  \/ DispatchGetKongClusters(Caller)
  \/ GetKongClusters(Caller)
  \/ ApiFails
  \/ ApiRecovers
  \/ UserCreate
  \/ UserDelete

\* A caller that is in the loop of GetKongClusters gets to make its next
\* attempt.
SpecList ==
  /\ InitList
  /\ [][NextList]_vars
  /\ WF_vars(GetKongClusters(Caller))

\* -------------------------------------------------------- MonitorKongEvents
\* A KongCluster object of the informer; id tells one allocation from
\* another.  A notification carries the object (and for an update the old
\* one too) as the informer hands it to the handler.
KongCluster(id, n, ns, r, i) ==
  [id |-> id, name |-> n, ns |-> ns, replicas |-> r, image |-> i]
NoObject == [id |-> 0, name |-> "", ns |-> "", replicas |-> 0, image |-> ""]
Notification(kind, old, o) == [kind |-> kind, old |-> old, obj |-> o]

\* A handler writes Type into the object it was handed and sends that
\* object on the events channel: [event, Type] names the object and the
\* value written.
createAddHandler(o) == [event |-> o, Type |-> "ADDED"]

createDeleteHandler(o) == [event |-> o, Type |-> "DELETED"]

\* Mutant: the handler forwards the old object.
updateHandlerOld(old, o) == [event |-> old, Type |-> "MODIFIED"]

updateHandler(old, o) == [event |-> o, Type |-> "MODIFIED"]

\* Mutant: the handler sends its event twice.
SendsTwice(h) == <<h.event, h.event>>

\* The sends a handler performs on the unbuffered events channel.
Sends(h) == <<h.event>>

watchFrame ==
  <<storeVars, procVars, histVars, budgetVars, callVars, clusters, queue,
    thirdPartyResources, apiUp>>

\* go controller.Run(stopchan); the channels are returned.
MonitorKongEvents ==
  /\ controller = "none"
  /\ controller' = "running"
  /\ UNCHANGED <<watchFrame, events, stopchan, notifications, cache, objType, sending,
                 consumer, received, handled>>

\* The watch reports a change of the KongClusters of the store.
Notify(n, c) ==
  /\ controller = "running"
  /\ stopchan = "open"
  /\ events < MaxEvents
  /\ events' = events + 1
  /\ notifications' = Append(notifications, n)
  /\ cache' = c
  /\ UNCHANGED <<watchFrame, stopchan, controller, objType, sending, consumer,
                 received, handled>>

NotifyAdd ==
  \E n \in ClusterNames, ns \in Namespaces, r \in ReplicaCounts, i \in Images :
    /\ \A c \in cache : <<c.name, c.ns>> # <<n, ns>>
    /\ Notify(Notification("add", NoObject, KongCluster(events + 1, n, ns, r, i)),
              cache \cup {KongCluster(events + 1, n, ns, r, i)})

NotifyUpdate ==
  \E c \in cache, r \in ReplicaCounts :
    /\ r # c.replicas
    /\ Notify(Notification("update", c, [c EXCEPT !.id = events + 1, !.replicas = r]),
              (cache \ {c}) \cup {[c EXCEPT !.id = events + 1, !.replicas = r]})

\* The periodic resync reports every known object as updated, old and new
\* being the same object.
NotifyResync ==
  \E c \in cache : Notify(Notification("update", c, c), cache)

NotifyDelete ==
  \E c \in cache : Notify(Notification("delete", NoObject, c), cache \ {c})

\* The controller's goroutine takes the next notification and calls its
\* handler, which stays in its send until the event is received.
Handle ==
  /\ controller = "running"
  /\ stopchan = "open"
  /\ sending = <<>>
  /\ notifications # <<>>
  /\ LET n == Head(notifications)
         h == CASE n.kind = "add" -> createAddHandler(n.obj)
                [] n.kind = "update" -> updateHandler(n.old, n.obj)
                [] OTHER -> createDeleteHandler(n.obj)
     IN /\ objType' = [objType EXCEPT ![h.event.id] = h.Type]
        /\ sending' = Sends(h)
        /\ handled' = Append(handled, n)
  /\ notifications' = Tail(notifications)
  /\ UNCHANGED <<watchFrame, events, stopchan, controller, cache, consumer, received>>

\* The consumer receives: the send completes; the consumer reads the event's
\* Type as it takes the event.
Receive ==
  /\ consumer = "receiving"
  /\ sending # <<>>
  /\ received' = Append(received, [obj |-> Head(sending),
                                    Type |-> objType[Head(sending).id]])
  /\ sending' = Tail(sending)
  /\ UNCHANGED <<watchFrame, events, stopchan, controller, notifications, cache,
                 objType, consumer, handled>>

CloseStop ==
  /\ controller = "running"
  /\ stopchan = "open"
  /\ stopchan' = "closed"
  /\ UNCHANGED <<watchFrame, events, controller, notifications, cache, objType, sending,
                 consumer, received, handled>>

\* Once the stop channel is closed the consumer may stop receiving.
ConsumerQuit ==
  /\ stopchan = "closed"
  /\ consumer = "receiving"
  /\ consumer' = "gone"
  /\ UNCHANGED <<watchFrame, events, stopchan, controller, notifications, cache, objType,
                 sending, received, handled>>

\* controller.Run returns once the stop channel is closed and no handler is
\* running.
ControllerStop ==
  /\ controller = "running"
  /\ stopchan = "closed"
  /\ sending = <<>>
  /\ controller' = "stopped"
  /\ UNCHANGED <<watchFrame, events, stopchan, notifications, cache, objType, sending,
                 consumer, received, handled>>

InitWatch == InitEvents

NextWatch ==
  \/ MonitorKongEvents
  \/ NotifyAdd
  \/ NotifyUpdate
  \/ NotifyResync
  \/ NotifyDelete
  \/ Handle
  \/ Receive
  \/ CloseStop
  \/ ConsumerQuit
  \/ ControllerStop

\* The goroutine of the controller gets to run, and a consumer that is
\* receiving gets to receive.
SpecWatch ==
  /\ InitWatch
  /\ [][NextWatch]_vars
  /\ WF_vars(Handle)
  /\ WF_vars(Receive)
  /\ WF_vars(ControllerStop)

\* ================================================================== claims
Issued(p, name) == \E k \in 1 .. Len(issued[p]) : issued[p][k] = name

Workloads(ns) == Named(deployments[ns], kongDeploymentName)

\* The current call of p repeats, with the same count and image, the clean
\* ensure that preceded it in its namespace, nothing having changed since,
\* and no remote call of it has failed.
Repeats(p) ==
  /\ call[p].op = "CreateKongDeployment"
  /\ prior[p].valid
  /\ prior[p].replicas = call[p].replicas.val
  /\ prior[p].image = call[p].image
  /\ getErr[p] = Nil
  /\ err[p] = Nil

\* CreateKongDeployment by p has just run to completion without a failed
\* remote call (a lookup that reports not-found is no failure).
CompletesClean(p) ==
  /\ call[p].op = "CreateKongDeployment"
  /\ pc[p] # "idle"
  /\ pc'[p] = "idle"
  /\ getErr'[p] \in {Nil, ErrNotFound}
  /\ err'[p] = Nil

\* C1: a CreateKongDeployment call that repeats the preceding one (same
\* image, count and namespace, no failure and no external change between)
\* issues neither a Create nor an Update, and leaves the stored objects as
\* the first call left them.
C1_RepeatedEnsureIssuesNoWrite ==
  \A p \in Procs :
    Repeats(p) =>
      /\ ~Issued(p, "Create")
      /\ ~Issued(p, "Update")
      /\ pc[p] = "idle" => Strip(deployments[call[p].ns]) = prior[p].objs

\* C2: whenever CreateKongDeployment runs to completion with desired count
\* R1, without a failed remote call and without a concurrent edit, the
\* namespace holds the workload kong and its count is R1, whatever count an
\* earlier call asked for and whether or not the workload existed.
C2_ReplicaCountConverges ==
  [][\A p \in Procs :
       CompletesClean(p) =>
         \E d \in Workloads(call[p].ns)' :
           /\ Workloads(call[p].ns)' = {d}
           /\ d.replicas = call[p].replicas.val]_vars

\* A second clean call with a count R1 different from the R0 of the call
\* before it has completed, and the stored count is R1.
C2_Witness ==
  \E p \in Procs :
    /\ call[p].op = "CreateKongDeployment"
    /\ pc[p] = "idle"
    /\ prior[p].valid
    /\ prior[p].replicas # call[p].replicas.val
    /\ err[p] = Nil
    /\ getErr[p] = Nil
    /\ \E d \in Workloads(call[p].ns) : d.replicas = call[p].replicas.val

\* C3: the Update issued by CreateKongDeployment changes, of everything
\* stored, only the replica count of the workload (and the version stamp the
\* store assigns): its image and its other fields, the services and the
\* replica sets are after the call what they were before it.
C3_UpdateChangesOnlyReplicas ==
  [][\A p \in Procs :
       (call[p].op = "CreateKongDeployment" /\ pc[p] = "update" /\ pc'[p] = "idle") =>
         /\ services' = services
         /\ replicaSets' = replicaSets
         /\ \A ns \in Namespaces \ {call[p].ns} : deployments'[ns] = deployments[ns]
         /\ \/ deployments' = deployments
            \/ \E s \in Workloads(call[p].ns) :
                 deployments'[call[p].ns] =
                   (deployments[call[p].ns] \ {s})
                     \cup {[s EXCEPT !.replicas = call[p].replicas.val,
                                     !.rv = version']}]_vars

\* An Update succeeded on a workload whose count and image both differed
\* from the desired ones; the stored image is still the one fetched.
C3_Witness ==
  \E p \in Procs :
    /\ call[p].op = "CreateKongDeployment"
    /\ pc[p] = "idle"
    /\ issued[p] = <<"Get", "Update">>
    /\ err[p] = Nil
    /\ fetched[p].replicas.val # call[p].replicas.val
    /\ fetched[p].image # call[p].image
    /\ \E d \in Workloads(call[p].ns) :
         d.image = fetched[p].image /\ d.replicas = call[p].replicas.val

\* C4: in the three ensure operations a lookup that fails with an error
\* other than not-found is returned to the caller and no Create is issued; a
\* Create is issued only after a lookup that reported not-found.
C4_CreateOnlyOnNotFound ==
  \A p \in Procs :
    call[p].op \in {"CreateKongProxyService", "CreateKongAdminService",
                    "CreateKongDeployment"} =>
      /\ Issued(p, "Create") => getErr[p] = ErrNotFound
      /\ (getErr[p] \notin {Nil, ErrNotFound} /\ pc[p] = "idle") => ret[p] = getErr[p]

\* C5: whenever the Create or the scale Update of CreateKongDeployment
\* fails, CreateKongDeployment returns a non-nil error.
C5_WriteErrorsReturned ==
  \A p \in Procs :
    ( /\ call[p].op = "CreateKongDeployment"
      /\ pc[p] = "idle"
      /\ Issued(p, "Create") \/ Issued(p, "Update")
      /\ err[p] # Nil ) => ret[p] # Nil

\* C6: when the Update of CreateKongDeployment fails with a version
\* conflict, the operation does not return success with the stored count
\* left different from the desired count.
C6_ConflictRetried ==
  [][\A p \in Procs :
       ( /\ call[p].op = "CreateKongDeployment"
         /\ pc[p] = "update"
         /\ pc'[p] = "idle"
         /\ err'[p] = ErrConflict
         /\ ret'[p] = Nil ) =>
           \A d \in Workloads(call[p].ns)' : d.replicas = call[p].replicas.val]_vars

\* Both workers have finished their ensure pass.
PassesDone ==
  \A p \in Procs : job[p].kind = "ensure" /\ pc[p] = "idle" /\ todo[p] = <<>>

\* C7: once two concurrent ensure passes for the same namespace and the same
\* desired count have both finished, the namespace holds exactly one
\* kong-proxy service, exactly one kong-admin service and exactly one kong
\* workload, whose count is the desired one.
C7_PassesInterleaveSafely ==
  PassesDone =>
    /\ Cardinality(Named(services[job[1].ns], kongProxyServiceName)) = 1
    /\ Cardinality(Named(services[job[1].ns], kongAdminServiceName)) = 1
    /\ Cardinality(Workloads(job[1].ns)) = 1
    /\ \A d \in Workloads(job[1].ns) : d.replicas = job[1].replicas

\* Both passes have finished and they did interleave: one pass lost the
\* race for the scale Update, the other the race for a Create.
C7_Witness ==
  /\ PassesDone
  /\ \E p, q \in Procs :
       /\ p # q
       /\ err[p] = ErrConflict
       /\ ret[q] = Nil
       /\ \A d \in Workloads(job[1].ns) : d.replicas = job[1].replicas

\* C8: when every event has been processed, every KongCluster that still
\* exists has exactly one kong workload and the services kong-proxy and
\* kong-admin in its namespace.
C8_EveryClusterHasItsObjects ==
  (queue = <<>> /\ pc[Caller] = "idle" /\ todo[Caller] = <<>>) =>
    \A c \in clusters :
      /\ Cardinality(Workloads(c.ns)) = 1
      /\ Named(services[c.ns], kongProxyServiceName) # {}
      /\ Named(services[c.ns], kongAdminServiceName) # {}

\* C9: when a teardown pass finishes without a failed remote call, its
\* namespace holds no kong workload, no kong-proxy or kong-admin service and
\* no replica set labelled app=kong,name=kong.
C9_TeardownLeavesNothing ==
  [][\A p \in Procs :
       ( /\ job[p].kind = "teardown"
         /\ todo[p] = <<>>
         /\ pc[p] # "idle"
         /\ pc'[p] = "idle"
         /\ clean'[p] ) =>
           /\ Workloads(job[p].ns)' = {}
           /\ services'[job[p].ns] = {}
           /\ replicaSets'[job[p].ns] = {}]_vars

\* C10: when the lookup of DeleteKongDeployment fails, with not-found or any
\* other error, the operation returns that error having issued nothing but
\* the lookup, and the store is as it was.
C10_TeardownAbortsOnLookupFailure ==
  /\ [](\A p \in Procs :
          (call[p].op = "DeleteKongDeployment" /\ getErr[p] # Nil) =>
            /\ pc[p] = "idle"
            /\ ret[p] = getErr[p]
            /\ issued[p] = <<"Get">>)
  /\ [][\A p \in Procs :
          ( /\ call[p].op = "DeleteKongDeployment"
            /\ pc[p] = "get"
            /\ getErr'[p] # Nil ) =>
              UNCHANGED <<deployments, services, replicaSets, version>>]_vars

\* A teardown whose lookup reported the workload missing has returned that
\* error.
C10_Witness ==
  \E p \in Procs :
    /\ call[p].op = "DeleteKongDeployment"
    /\ pc[p] = "idle"
    /\ getErr[p] = ErrNotFound
    /\ ret[p] = ErrNotFound

\* C11: when DeleteKongDeployment has run to completion after a successful
\* fetch, it has issued one Delete for each replica set its List returned,
\* in the order listed and whatever the Deletes before it returned; every
\* replica set whose Delete succeeded is gone; and it returned nil.
C11_EveryListedReplicaSetTried ==
  \A p \in Procs :
    (call[p].op = "DeleteKongDeployment" /\ pc[p] = "idle" /\ getErr[p] = Nil) =>
      /\ ret[p] = Nil
      /\ Len(tried[p]) = Len(listed[p])
      /\ \A k \in 1 .. Len(listed[p]) : tried[p][k].name = listed[p][k].name
      /\ \A k \in 1 .. Len(tried[p]) :
           tried[p][k].err = Nil =>
             Named(replicaSets[call[p].ns], tried[p][k].name) = {}

\* A teardown over three listed replica sets has completed; a Delete failed
\* and a Delete issued after it succeeded.
C11_Witness ==
  \E p \in Procs :
    /\ call[p].op = "DeleteKongDeployment"
    /\ pc[p] = "idle"
    /\ Len(listed[p]) = 3
    /\ \E j, k \in 1 .. Len(tried[p]) :
         j < k /\ tried[p][j].err # Nil /\ tried[p][k].err = Nil

\* C12: a call of CreateKongProxyService or CreateKongAdminService that found
\* no service of its name and whose Create succeeded has issued exactly one
\* Get and one Create, and the namespace then holds exactly one service of
\* that name: kong-proxy with ports 80 to 8000 and 443 to 8443 over TCP,
\* type LoadBalancer and source range 0.0.0.0/0; kong-admin with port 8444
\* to 8444 over TCP and type ClusterIP.
C12_CreateOnAbsence ==
  \A p \in Procs :
    ( /\ call[p].op \in {"CreateKongProxyService", "CreateKongAdminService"}
      /\ pc[p] = "idle"
      /\ getErr[p] = ErrNotFound
      /\ err[p] = Nil ) =>
        /\ issued[p] = <<"Get", "Create">>
        /\ \E s \in services[call[p].ns] :
             /\ Named(services[call[p].ns], s.name) = {s}
             /\ IF call[p].op = "CreateKongProxyService"
                THEN /\ s.name = "kong-proxy"
                     /\ s.type = "LoadBalancer"
                     /\ s.ports = << <<80, 8000, "TCP">>, <<443, 8443, "TCP">> >>
                     /\ s.ranges = << "0.0.0.0/0" >>
                ELSE /\ s.name = "kong-admin"
                     /\ s.type = "ClusterIP"
                     /\ s.ports = << <<8444, 8444, "TCP">> >>

\* Starting from a namespace without services, kong-proxy and then
\* kong-admin have been created, one Create each.
C12_Witness ==
  \E p \in Procs :
    /\ call[p].op = "CreateKongAdminService"
    /\ pc[p] = "idle"
    /\ issued[p] = <<"Get", "Create">>
    /\ getErr[p] = ErrNotFound
    /\ err[p] = Nil
    /\ jobs = 2
    /\ Cardinality(services[call[p].ns]) = 2
    /\ Cardinality(Named(services[call[p].ns], kongProxyServiceName)) = 1
    /\ deployments[call[p].ns] = {}

\* C13: a namespace never holds two services of one name, and a call of
\* CreateKongProxyService or CreateKongAdminService whose lookup finds the
\* service returns nil at once: it issues nothing but the Get and the stored
\* services are what they were, whatever the shape of the service found.
C13_ServicesImmutable ==
  /\ [](\A ns \in Namespaces :
          \A name \in {kongProxyServiceName, kongAdminServiceName} :
            Cardinality(Named(services[ns], name)) <= 1)
  /\ [][\A p \in Procs :
          ( /\ call[p].op \in {"CreateKongProxyService", "CreateKongAdminService"}
            /\ pc[p] = "get"
            /\ pc'[p] # "get"
            /\ getErr'[p] = Nil ) =>
              /\ pc'[p] = "idle"
              /\ ret'[p] = Nil
              /\ issued'[p] = <<"Get">>
              /\ services' = services]_vars

\* A call has found a service whose type and ports are not the canonical
\* ones and has returned, the service still being as found.
C13_Witness ==
  \E p \in Procs :
    /\ call[p].op = "CreateKongProxyService"
    /\ pc[p] = "idle"
    /\ issued[p] = <<"Get">>
    /\ fetched[p].type = "NodePort"
    /\ \E s \in Named(services[call[p].ns], kongProxyServiceName) :
         s.type = "NodePort" /\ s.ports = << <<8080, 8000, "TCP">> >>

\* C14: once the stop channel is closed the goroutine started by
\* MonitorKongEvents eventually returns, and after it has returned no
\* further event is received.
C14_StopTerminatesDispatcher ==
  /\ (stopchan = "closed") ~> (controller = "stopped")
  /\ [][controller = "stopped" => received' = received]_vars

\* C15: every event received carries the kind of the notification whose
\* handler sent it (add: ADDED, update: MODIFIED, delete: DELETED) and is the
\* object of that notification, for an update the new object.
C15_EventCarriesKind ==
  [][received' # received =>
       LET e == received'[Len(received')]
           n == handled[Len(handled)]
       IN /\ e.obj = n.obj
          /\ e.Type = CASE n.kind = "add" -> "ADDED"
                        [] n.kind = "update" -> "MODIFIED"
                        [] OTHER -> "DELETED"]_vars

\* An update to a new object, then a deletion, have been forwarded after
\* the creation.
C15_Witness ==
  /\ Len(received) = 3
  /\ received[1].Type = "ADDED"
  /\ received[2].Type = "MODIFIED"
  /\ received[2].obj.id # received[1].obj.id
  /\ received[3].Type = "DELETED"

\* C16: the events received are, one for one and in the same order, the
\* objects of the notifications handled so far, the event of the handler
\* still in its send excepted; and while the consumer keeps receiving, the
\* event of every handled notification is received.
C16_OneEventPerNotificationInOrder ==
  /\ [](/\ Len(received) + Len(sending) = Len(handled)
         /\ \A k \in 1 .. Len(received) : received[k].obj = handled[k].obj)
  /\ \A k \in 1 .. MaxEvents :
       (Len(handled) >= k) ~> (Len(received) >= k \/ consumer = "gone")

\* Three notifications have been handled and their events received: two
\* about one KongCluster, one about another.
C16_Witness ==
  /\ Len(received) = 3
  /\ Len(handled) = 3
  /\ sending = <<>>
  /\ \E j, k \in 1 .. 3 :
       /\ j < k
       /\ received[j].obj.name = received[k].obj.name
       /\ received[j].obj.id # received[k].obj.id
  /\ \E j, k \in 1 .. 3 : received[j].obj.name # received[k].obj.name

\* C17: the lookup of CreateKubernetesThirdPartyResource changes nothing;
\* when it finds the schema the call returns nil with nothing else issued;
\* when it reports not-found one Create follows; on any other error the
\* process panics with nothing else issued.  A Create is issued only after
\* not-found, once, and when it succeeds the store holds the schema named
\* kong-cluster.enterprises.upmc.com with version v1.
C17_BootstrapByLookupResult ==
  /\ [](\A p \in Procs :
          call[p].op = "CreateKubernetesThirdPartyResource" =>
            /\ Issued(p, "Create") =>
                 (getErr[p] = ErrNotFound /\ issued[p] = <<"Get", "Create">>)
            /\ (Issued(p, "Create") /\ pc[p] = "idle" /\ err[p] = Nil) =>
                 \E s \in thirdPartyResources :
                   /\ thirdPartyResources = {s}
                   /\ s.name = "kong-cluster.enterprises.upmc.com"
                   /\ s.versions = << "v1" >>)
  /\ [][\A p \in Procs :
          ( /\ call[p].op = "CreateKubernetesThirdPartyResource"
            /\ pc[p] = "get"
            /\ pc'[p] # "get" ) =>
              /\ thirdPartyResources' = thirdPartyResources
              /\ issued'[p] = <<"Get">>
              /\ getErr'[p] = Nil => (pc'[p] = "idle" /\ ret'[p] = Nil)
              /\ getErr'[p] = ErrNotFound => pc'[p] = "create"
              /\ getErr'[p] \notin {Nil, ErrNotFound} =>
                   (pc'[p] = "panicked" /\ ret'[p] = getErr'[p])]_vars

\* A call made after the call that created the schema has found it and
\* returned, having issued its Get only.
C17_Witness ==
  \E p \in Procs :
    /\ call[p].op = "CreateKubernetesThirdPartyResource"
    /\ pc[p] = "idle"
    /\ jobs = 2
    /\ getErr[p] = Nil
    /\ issued[p] = <<"Get">>
    /\ \E s \in thirdPartyResources : s.rv > 1 /\ s.versions = << "v1" >>

\* C18: as long as no request fails for a reason of the store's, no process
\* running CreateKubernetesThirdPartyResource panics, and the schema is
\* registered at most once.
C18_ConcurrentBootstrapSafe ==
  faults = MaxFaults =>
    /\ \A p \in Procs : pc[p] # "panicked"
    /\ Cardinality(Named(thirdPartyResources, tprName)) <= 1

\* The calls issued so far by DeleteKongDeployment are in the order Get,
\* Update, Delete, List, then the Deletes of replica sets.
TeardownOrder(p) ==
  \A k \in 1 .. Len(issued[p]) :
    issued[p][k] = CASE k = 1 -> "Get"
                     [] k = 2 -> "Update"
                     [] k = 3 -> "Delete"
                     [] k = 4 -> "List"
                     [] OTHER -> "DeleteRS"

\* C19 as claimed: the calls of DeleteKongDeployment are issued in the order
\* Get, Update, Delete, List, Deletes of replica sets, and the Delete of the
\* workload is issued only after the Update has succeeded, the stored count
\* of the workload being zero when it is deleted.
C19_DeleteOnlyAfterScaleSucceeded ==
  /\ [](\A p \in Procs : call[p].op = "DeleteKongDeployment" => TeardownOrder(p))
  /\ [][\A p \in Procs :
          ( /\ call[p].op = "DeleteKongDeployment"
            /\ pc[p] = "delete"
            /\ pc'[p] # "delete" ) =>
              /\ err[p] = Nil
              /\ \A d \in Workloads(call[p].ns) : d.replicas = 0]_vars

\* C19 amended: the calls of DeleteKongDeployment are issued in the order
\* Get, Update, Delete, List, Deletes of replica sets; the Delete of the
\* workload follows the Update whatever the Update returned.
C19_TeardownOrder ==
  /\ [](\A p \in Procs : call[p].op = "DeleteKongDeployment" => TeardownOrder(p))
  /\ [][\A p \in Procs :
          ( /\ call[p].op = "DeleteKongDeployment"
            /\ pc[p] = "scale"
            /\ pc'[p] # "scale" ) =>
              (pc'[p] = "delete" /\ issued'[p] = <<"Get", "Update">>)]_vars

\* The Update failed and the workload has been deleted all the same: the
\* fetch and the Delete succeeded, yet a call of the teardown failed.
C19_Witness ==
  \E p \in Procs :
    /\ call[p].op = "DeleteKongDeployment"
    /\ pc[p] = "list"
    /\ issued[p] = <<"Get", "Update", "Delete">>
    /\ getErr[p] = Nil
    /\ err[p] = Nil
    /\ ~clean[p]
    /\ Workloads(call[p].ns) = {}

\* C20: an attempt of GetKongClusters that fails leaves the call in its
\* loop, to attempt again; an attempt that succeeds ends the call, which
\* returns the items of that attempt and nil; the call has returned only if
\* its last attempt succeeded; and if from some time on the store answers,
\* a call that is in its loop returns.
C20_ListRetriesUntilSuccess ==
  /\ [][\A p \in Procs :
          GetKongClusters(p) =>
            IF err'[p] # Nil
            THEN pc'[p] = "get" /\ items'[p] = items[p]
            ELSE /\ pc'[p] = "idle"
                 /\ ret'[p] = Nil
                 /\ items'[p] = InStoreOrder(clusters)]_vars
  /\ [](\A p \in Procs :
          (call[p].op = "GetKongClusters" /\ pc[p] = "idle") =>
            (err[p] = Nil /\ ret[p] = Nil))
  /\ \A p \in Procs :
       (<>[]apiUp) =>
         []((call[p].op = "GetKongClusters" /\ pc[p] = "get") => <>(pc[p] = "idle"))

\* A call has returned the KongClusters after at least MaxAttempts attempts,
\* all but the last of which failed.
C20_Witness ==
  \E p \in Procs :
    /\ call[p].op = "GetKongClusters"
    /\ pc[p] = "idle"
    /\ attempts[p] = MaxAttempts
    /\ items[p] # <<>>

====
